---- MODULE Spec2Model ----
(***************************************************************************)
(* Model of the ENC28J60 driver (enc28j60/src/spi_device.rs, register.rs)  *)
(* together with the device it talks to over SPI.  The driver side is      *)
(* translated from the Rust source; the device side is the ENC28J60        *)
(* behaviour the driver's commands rely on (banked register file, bank     *)
(* bits in ECON1, auto-incrementing buffer pointers, EPKTCNT/PKTDEC,       *)
(* TXRTS/TXABRT, MII BUSY).                                                *)
(***************************************************************************)
EXTENDS Integers, Sequences, FiniteSets, TLC

(***************************************************************************)
(* Bounds of the model                                                     *)
(***************************************************************************)
MaxOps == 2
MaxPackets == 2
MaxPoll == 2

(***************************************************************************)
(* Bit arithmetic on machine words                                         *)
(***************************************************************************)
RECURSIVE BitAnd(_, _)
BitAnd(a, b) ==
    IF a = 0 \/ b = 0 THEN 0
    ELSE ((a % 2) * (b % 2)) + 2 * BitAnd(a \div 2, b \div 2)

BitOr(a, b) == a + b - BitAnd(a, b)

BitClear(a, m) == a - BitAnd(a, m)

U16 == 65536

LoByte(v) == BitAnd(v, 255)
HiByte(v) == (v \div 256) % 256

from_le_bytes(lo, hi) == BitOr(lo, hi * 256)

Min(a, b) == IF a < b THEN a ELSE b

\* F applied to the value of v, v being evaluated once
Then(v, F(_)) == CHOOSE r \in {F(x) : x \in {v}} : TRUE

saturating_sub(a, b) == IF a >= b THEN a - b ELSE 0

(***************************************************************************)
(* register.rs: banks, blocks, opcodes and the register catalog            *)
(***************************************************************************)
Bank0 == 0
Bank1 == 1
Bank2 == 2
Bank3 == 3
NoBank == 4

global(a) == [addr |-> a, bank |-> NoBank, bloc |-> "Eth"]
banked(a, b, c) == [addr |-> a, bank |-> b, bloc |-> c]

addr(reg) == BitAnd(reg.addr, 31)
bank(reg) == reg.bank
shifts_dummy_byte(reg) == reg.bloc \in {"Mac", "Mii"}

RCR == 0
RBM == 32
WCR == 64
WBM == 96
BFS == 128
BFC == 160

\* an opcode left in the low bits instead of bits 7..5
opcode_unshifted(reg, op) == BitOr(op \div 32, addr(reg))

opcode(reg, op) == BitOr(op, addr(reg))

EIE == global(27)
EIR == global(28)
ESTAT == global(29)
ECON2 == global(30)
ECON1 == global(31)

ERDPTL == banked(0, Bank0, "Eth")
ERDPTH == banked(1, Bank0, "Eth")
EWRPTL == banked(2, Bank0, "Eth")
EWRPTH == banked(3, Bank0, "Eth")
ETXSTL == banked(4, Bank0, "Eth")
ETXSTH == banked(5, Bank0, "Eth")
ETXNDL == banked(6, Bank0, "Eth")
ETXNDH == banked(7, Bank0, "Eth")
ERXSTL == banked(8, Bank0, "Eth")
ERXSTH == banked(9, Bank0, "Eth")
ERXNDL == banked(10, Bank0, "Eth")
ERXNDH == banked(11, Bank0, "Eth")
ERXRDPTL == banked(12, Bank0, "Eth")
ERXRDPTH == banked(13, Bank0, "Eth")
ERXWRPTL == banked(14, Bank0, "Eth")
ERXWRPTH == banked(15, Bank0, "Eth")

ERXFCON == banked(24, Bank1, "Eth")
EPKTCNT == banked(25, Bank1, "Eth")

MACON1 == banked(0, Bank2, "Mac")
MACON3 == banked(2, Bank2, "Mac")
MABBIPG == banked(4, Bank2, "Mac")
MAIPGL == banked(6, Bank2, "Mac")
MAMXFLL == banked(10, Bank2, "Mac")
MAMXFLH == banked(11, Bank2, "Mac")
MICMD == banked(18, Bank2, "Mii")
MIREGADR == banked(20, Bank2, "Mii")
MIWRL == banked(22, Bank2, "Mii")
MIWRH == banked(23, Bank2, "Mii")
MIRDL == banked(24, Bank2, "Mii")
MIRDH == banked(25, Bank2, "Mii")

MAADR5 == banked(0, Bank3, "Mac")
MAADR6 == banked(1, Bank3, "Mac")
MAADR3 == banked(2, Bank3, "Mac")
MAADR4 == banked(3, Bank3, "Mac")
MAADR1 == banked(4, Bank3, "Mac")
MAADR2 == banked(5, Bank3, "Mac")
MISTAT == banked(10, Bank3, "Mii")
EREVID == banked(18, Bank3, "Eth")

PhyRegister(a) == [addr |-> BitAnd(a, 31)]
PHCON1 == PhyRegister(0)
PHCON2 == PhyRegister(16)

(***************************************************************************)
(* The device: a register file addressed by (bank bits of ECON1, address), *)
(* the five global registers being the same cell in every bank.            *)
(***************************************************************************)
Key(b, a) == IF a >= 27 THEN a ELSE b * 32 + a
RegKey(reg) == Key(IF reg.bank = NoBank THEN 0 ELSE reg.bank, addr(reg))
\* the cells the model keeps: all of bank 0 (with the globals), and the cells
\* of banks 1 to 3 that the driver names; any other cell reads 0
Keys ==
    (0 .. 31)
    \cup {Key(1, a) : a \in {24, 25}}
    \cup {Key(2, a) : a \in {0, 2, 4, 6, 10, 11, 18, 20, 22, 23, 24, 25}}
    \cup {Key(3, a) : a \in {0, 1, 2, 3, 4, 5, 10, 18}}

DevBank(d) == BitAnd(d.regs[31], 3)

Get16(d, lo) == from_le_bytes(d.regs[RegKey(lo)], d.regs[RegKey(lo) + 1])
Put16(regs, lo, v) ==
    [regs EXCEPT ![RegKey(lo)] = LoByte(v), ![RegKey(lo) + 1] = HiByte(v)]

\* registers the host cannot write
ReadOnlyKeys ==
    {RegKey(EPKTCNT), RegKey(MISTAT), RegKey(EREVID),
     RegKey(MIRDL), RegKey(MIRDH), RegKey(ERXWRPTL), RegKey(ERXWRPTH)}

\* MAC and MII registers of the device shift a dummy byte out first
DevShiftsDummy(b, a) ==
    \/ b = 2 /\ a <= 26
    \/ b = 3 /\ a \in (0 .. 5) \cup {10}

PKTDEC_MASK == 64
AUTOINC_MASK == 128
TXRTS_MASK == 8
TXIF_MASK == 8
TXABRT_MASK == 2
CLKRDY_MASK == 1
RXEN_MASK == 4
BUSY_MASK == 1

\* the value v arrives in the cell that address a selects in the current bank
DevStore(d, a, v) ==
    LET k == Key(DevBank(d), a) IN
    IF k \in ReadOnlyKeys \/ k \notin Keys THEN d
    ELSE IF k = RegKey(ECON2) THEN
        LET cnt == d.regs[RegKey(EPKTCNT)]
            dec == BitAnd(v, PKTDEC_MASK) # 0 /\ cnt > 0
        IN [d EXCEPT !.regs = [@ EXCEPT ![k] = BitClear(v, PKTDEC_MASK),
                                        ![RegKey(EPKTCNT)] =
                                            IF dec THEN cnt - 1 ELSE cnt]]
    ELSE IF k = RegKey(ESTAT) THEN
        [d EXCEPT !.regs[k] =
            BitOr(BitClear(v, CLKRDY_MASK), BitAnd(d.regs[k], CLKRDY_MASK))]
    ELSE IF k \in {RegKey(ERXSTL), RegKey(ERXSTH)} THEN
        LET r1 == [d.regs EXCEPT ![k] = v]
            st == from_le_bytes(r1[RegKey(ERXSTL)], r1[RegKey(ERXSTH)])
        IN [d EXCEPT !.regs = Put16(r1, ERXWRPTL, st)]
    ELSE IF k = RegKey(MIWRH) THEN
        [d EXCEPT !.regs = [@ EXCEPT ![k] = v,
                                     ![RegKey(MISTAT)] = BitOr(@, BUSY_MASK)],
                  !.mii = "wr"]
    ELSE IF k = RegKey(MICMD) /\ BitAnd(v, 1) # 0 THEN
        [d EXCEPT !.regs = [@ EXCEPT ![k] = v,
                                     ![RegKey(MISTAT)] = BitOr(@, BUSY_MASK)],
                  !.mii = "rd"]
    ELSE [d EXCEPT !.regs[k] = v]

DevRead(d, a) ==
    IF Key(DevBank(d), a) \in Keys THEN d.regs[Key(DevBank(d), a)] ELSE 0

\* bit field set / clear act on ETH registers only
DevBitSet(d, a, m) ==
    IF DevShiftsDummy(DevBank(d), a) THEN d
    ELSE DevStore(d, a, BitOr(DevRead(d, a), m))

DevBitClear(d, a, m) ==
    IF DevShiftsDummy(DevBank(d), a) THEN d
    ELSE DevStore(d, a, BitClear(DevRead(d, a), m))

(***************************************************************************)
(* The device's buffer memory.  A received packet is written at the        *)
(* hardware write pointer as a six byte receive status vector (next packet *)
(* pointer, byte count including the CRC, status), the frame, and a pad    *)
(* byte to an even address.  pkts keeps what was written and where.        *)
(***************************************************************************)
RAM_SIZE == 8192

Frames ==
    { [len |-> 3,  pat |-> <<9, 8, 7>>],
      [len |-> 10, pat |-> <<17, 34, 8, 0, 85, 102, 0, 0, 0, 0>>],
      [len |-> 74, pat |-> <<1, 0>>] }

FrameByte(f, i) == f.pat[(i % Len(f.pat)) + 1]

RingAdd(st, nd, p, n) ==
    IF p <= nd /\ p + n > nd THEN st + (p + n - nd - 1)
    ELSE (p + n) % RAM_SIZE

Padded(n) == n + (n % 2)

ExtentSize(e) == 6 + Padded(e.frame.len)

\* offset of address a inside the extent e, or -1
ExtentOff(e, a) ==
    LET lin == IF a >= e.start /\ (e.start > e.rnd \/ a <= e.rnd)
               THEN a - e.start
               ELSE IF a < e.start /\ a >= e.rst /\ e.start <= e.rnd
               THEN (e.rnd - e.start + 1) + (a - e.rst)
               ELSE -1
    IN IF lin >= 0 /\ lin < ExtentSize(e) THEN lin ELSE -1

ExtentByte(e, o) ==
    IF o = 0 THEN LoByte(e.next)
    ELSE IF o = 1 THEN HiByte(e.next)
    ELSE IF o = 2 THEN LoByte(e.frame.len)
    ELSE IF o = 3 THEN HiByte(e.frame.len)
    ELSE IF o = 4 THEN 128
    ELSE IF o = 5 THEN 0
    ELSE IF o < 6 + e.frame.len THEN FrameByte(e.frame, o - 6)
    ELSE 0

RECURSIVE MemScan(_, _, _)
MemScan(pk, i, a) ==
    IF i = 0 THEN 0
    ELSE IF ExtentOff(pk[i], a) >= 0 THEN ExtentByte(pk[i], ExtentOff(pk[i], a))
    ELSE MemScan(pk, i - 1, a)

MemByte(d, a) == MemScan(d.pkts, Len(d.pkts), a)

\* the read pointer n bytes after p inside the ring st..nd (p <= nd): it goes
\* from nd back to st
RingPos(st, nd, p, n) ==
    IF p + n <= nd THEN p + n
    ELSE IF st <= nd THEN st + ((n - (nd - p) - 1) % (nd - st + 1))
    ELSE (st + (n - (nd - p) - 1)) % RAM_SIZE

\* the read pointer after n bytes were read through the buffer port: with
\* AUTOINC it steps by one, from ERXND to ERXST and from the end of the
\* memory to address 0
RdAdvance(d, p, n) ==
    LET st == Get16(d, ERXSTL)
        nd == Get16(d, ERXNDL)
    IN IF BitAnd(d.regs[RegKey(ECON2)], AUTOINC_MASK) = 0 THEN p
       ELSE IF p <= nd THEN RingPos(st, nd, p, n)
       ELSE IF p + n < RAM_SIZE THEN p + n
       ELSE RingPos(st, nd, 0, p + n - RAM_SIZE)

RdBytes(d, p, n) == [i \in 1 .. n |-> MemByte(d, RdAdvance(d, p, i - 1))]

DevMemRead(d, n) ==
    [d EXCEPT !.regs = Put16(@, ERDPTL, RdAdvance(d, Get16(d, ERDPTL), n))]

DevMemWrite(d, n) ==
    IF BitAnd(d.regs[RegKey(ECON2)], AUTOINC_MASK) = 0 THEN d
    ELSE [d EXCEPT !.regs = Put16(@, EWRPTL, (Get16(d, EWRPTL) + n) % RAM_SIZE)]

(***************************************************************************)
(* Reset values of the device (system reset; the buffer memory and the     *)
(* revision survive).  rdrst is the read pointer after reset: 0x05FA on    *)
(* the silicon, RX_START on a device that starts reading at the ring.      *)
(***************************************************************************)
ERDPT_RESET == 1530
ERXND_RESET == 8191
ErdptResets == {0, ERDPT_RESET}
Revisions == {4, 6}

ResetRegs(rev, rdrst) ==
    Put16(Put16(Put16(Put16(
        [k \in Keys |-> IF k = RegKey(ECON2) THEN AUTOINC_MASK
                        ELSE IF k = RegKey(EREVID) THEN rev ELSE 0],
        ERDPTL, rdrst), ERXSTL, ERDPT_RESET), ERXNDL, ERXND_RESET),
        ERXRDPTL, ERDPT_RESET)

PhyAddrs == {0, 16}

DevReset(d) ==
    [d EXCEPT !.regs = ResetRegs(d.regs[RegKey(EREVID)], d.rdrst),
              !.mii = "idle",
              !.phy = [a \in PhyAddrs |-> 0]]

\* the device's reaction to the bytes of one write-only SPI command
DevCommand(d, bytes) ==
    LET b0 == bytes[1]
        op == (b0 \div 32) * 32
        a == b0 % 32
    IN IF b0 = 255 THEN DevReset(d)
       ELSE IF Len(bytes) < 2 THEN d
       ELSE IF op = WCR THEN DevStore(d, a, bytes[2])
       ELSE IF op = BFS THEN DevBitSet(d, a, bytes[2])
       ELSE IF op = BFC THEN DevBitClear(d, a, bytes[2])
       ELSE IF op = WBM THEN DevMemWrite(d, Len(bytes) - 1)
       ELSE d

\* what the device shifts out while the host clocks n bytes of a register read
DevResponse(d, a, n) ==
    LET v == DevRead(d, a)
        dummy == DevShiftsDummy(DevBank(d), a)
    IN [i \in 1 .. n |-> IF i = 1 THEN 0
                         ELSE IF i = 2 THEN (IF dummy THEN 0 ELSE v)
                         ELSE v]

(***************************************************************************)
(* The SPI capability.  m is the driver together with the bus and device:  *)
(*   bank  the driver's current_bank      dev    the device                *)
(*   trace the commands issued            fuel   transactions until the    *)
(*   err   an SPI error is propagating           bus fails (0: never)      *)
(*   val   the value of the last read     rd     the bytes of the last     *)
(*                                               buffer read               *)
(* Every trace entry records the bytes written, the number of bytes read,  *)
(* the bank the device was in when it took the command and, for a register *)
(* read, the bytes the device answered.                                    *)
(***************************************************************************)
Entry(m, bytes, n, good) ==
    [tx |-> bytes, rx |-> n, bank |-> DevBank(m.dev), ok |-> good,
     rsp |-> IF good /\ n > 0 /\ Len(bytes) = 2
             THEN DevResponse(m.dev, bytes[1] % 32, n) ELSE <<>>]

Fails(m) == m.fuel = 1
Tick(f) == IF f > 1 THEN f - 1 ELSE 0

\* a failed transaction whose Err is dropped instead of returned: the read
\* buffer keeps its zeroes
SpiFail_ignored(m, bytes, n) ==
    [m EXCEPT !.fuel = 0, !.rd = [i \in 1 .. n |-> 0],
              !.trace = Append(@, Entry(m, bytes, n, FALSE))]

SpiFail(m, bytes, n) ==
    [m EXCEPT !.err = TRUE, !.fuel = 0,
              !.trace = Append(@, Entry(m, bytes, n, FALSE))]

spi_write(m0, bytes) ==
    Then(m0, LAMBDA m :
        IF m.err THEN m
        ELSE IF Fails(m) THEN SpiFail(m, bytes, 0)
        ELSE [m EXCEPT !.dev = DevCommand(m.dev, bytes),
                       !.fuel = Tick(@),
                       !.trace = Append(@, Entry(m, bytes, 0, TRUE))])

spi_transfer(m0, n, bytes) ==
    Then(m0, LAMBDA m :
        IF m.err THEN m
        ELSE IF Fails(m) THEN SpiFail(m, bytes, n)
        ELSE [m EXCEPT !.rd = DevResponse(m.dev, bytes[1] % 32, n),
                       !.fuel = Tick(@),
                       !.trace = Append(@, Entry(m, bytes, n, TRUE))])

spi_transaction_read(m0, op, n) ==
    Then(m0, LAMBDA m :
        IF m.err THEN m
        ELSE IF Fails(m) THEN SpiFail(m, <<op>>, n)
        ELSE [m EXCEPT !.rd = RdBytes(m.dev, Get16(m.dev, ERDPTL), n),
                       !.dev = DevMemRead(m.dev, n),
                       !.fuel = Tick(@),
                       !.trace = Append(@, Entry(m, <<op>>, n, TRUE))])

spi_transaction_write(m0, op, data) ==
    Then(m0, LAMBDA m :
        IF m.err THEN m
        ELSE IF Fails(m) THEN SpiFail(m, <<op>> \o data, 0)
        ELSE [m EXCEPT !.dev = DevCommand(m.dev, <<op>> \o data),
                       !.fuel = Tick(@),
                       !.trace = Append(@, Entry(m, <<op>> \o data, 0, TRUE))])

(***************************************************************************)
(* spi_device.rs: the SPI command layer of the driver                      *)
(***************************************************************************)
reset_via_spi(m) == spi_write(m, <<255>>)

ensure_autoinc(m) == spi_write(m, <<opcode(ECON2, BFS), AUTOINC_MASK>>)

RBM_MAGIC == 26
WBM_MAGIC == 26

mem_read(m, n) == spi_transaction_read(m, BitOr(RBM, RBM_MAGIC), n)

mem_write(m, data) == spi_transaction_write(m, BitOr(WBM, WBM_MAGIC), data)

set_bank(m, b) ==
    Then(spi_write(m, <<opcode(ECON1, BFC), 3>>), LAMBDA m1 :
    Then(spi_write(m1, <<opcode(ECON1, BFS), BitAnd(b, 3)>>), LAMBDA m2 :
        IF m2.err THEN m2 ELSE [m2 EXCEPT !.bank = b]))

\* a bank selection that ignores the cached bank
select_bank_eager(m0, reg) ==
    Then(m0, LAMBDA m :
        IF bank(reg) # NoBank THEN set_bank(m, bank(reg)) ELSE m)

select_bank(m0, reg) ==
    Then(m0, LAMBDA m :
        IF bank(reg) # NoBank /\ m.bank # bank(reg)
        THEN set_bank(m, bank(reg)) ELSE m)

read_control(m, reg) ==
    Then(select_bank(m, reg), LAMBDA m1 :
    Then(spi_transfer(m1, 3, <<opcode(reg, RCR), 0>>), LAMBDA m2 :
        IF m2.err THEN m2
        ELSE [m2 EXCEPT !.val = IF shifts_dummy_byte(reg)
                                 THEN m2.rd[3] ELSE m2.rd[2]]))

write_control(m, reg, data) ==
    Then(select_bank(m, reg), LAMBDA m1 :
        spi_write(m1, <<opcode(reg, WCR), data>>))

read_u16(m, lo, hi) ==
    Then(read_control(m, lo), LAMBDA m1 :
    Then(read_control(m1, hi), LAMBDA m2 :
        IF m2.err THEN m2 ELSE [m2 EXCEPT !.val = BitOr(m1.val, m2.val * 256)]))

\* write_u16 with the high byte written first
write_u16_high_first(m, lo, hi, val) ==
    Then(write_control(m, hi, val \div 256), LAMBDA m1 :
        write_control(m1, lo, BitAnd(val, 255)))

write_u16(m, lo, hi, val) ==
    Then(write_control(m, lo, BitAnd(val, 255)), LAMBDA m1 :
        write_control(m1, hi, val \div 256))

(***************************************************************************)
(* PHY access                                                              *)
(***************************************************************************)
\* write_phy with the high byte written first
write_phy_high_first(m, reg, data) ==
    Then(write_control(m, MIREGADR, reg.addr), LAMBDA m1 :
    Then(write_control(m1, MIWRH, data \div 256), LAMBDA m2 :
        write_control(m2, MIWRL, BitAnd(data, 255))))

write_phy(m, reg, data) ==
    Then(write_control(m, MIREGADR, reg.addr), LAMBDA m1 :
        write_u16(m1, MIWRL, MIWRH, data))

\* read_phy up to the busy poll (steps 1 and 2)
read_phy_start(m, reg) ==
    Then(write_control(m, MIREGADR, reg.addr), LAMBDA m1 :
        write_control(m1, MICMD, 1))

\* read_phy after the busy poll (steps 4 and 5)
read_phy_finish(m) ==
    Then(write_control(m, MICMD, 0), LAMBDA m1 :
        read_u16(m1, MIRDL, MIRDH))

(***************************************************************************)
(* Arithmetic on u16 that can overflow: the build either panics (overflow  *)
(* checks on) or wraps (overflow checks off).  wrap says which.            *)
(***************************************************************************)
Panic(m) == [m EXCEPT !.err = TRUE, !.panic = TRUE]

(***************************************************************************)
(* receive                                                                 *)
(***************************************************************************)
DUMMY_LEN == 64
CRC_LEN == 4
RSV_LEN == 6

RECURSIVE drain(_, _)
drain(m0, remaining) ==
    Then(m0, LAMBDA m :
        IF remaining = 0 \/ m.err THEN m
        ELSE Then(Min(remaining, DUMMY_LEN), LAMBDA chunk_size :
                drain(mem_read(m, chunk_size), remaining - chunk_size)))

\* lines 278-293: copy the payload and skip what does not fit
read_payload(m0, payload_len, copy_len) ==
    Then(m0, LAMBDA m :
        IF copy_len > 0 THEN
            Then(mem_read(m, copy_len), LAMBDA m1 :
            Then(IF m1.err THEN m1
                 ELSE [m1 EXCEPT !.buf =
                         [i \in 1 .. Len(m.buf) |->
                             IF i <= copy_len THEN m1.rd[i] ELSE m.buf[i]]],
                 LAMBDA m2 :
                    IF payload_len > copy_len
                    THEN drain(m2, payload_len - copy_len)
                    ELSE m2))
        ELSE m)

\* lines 300-306
new_rdpt(next_packet, erx_start, erx_end) ==
    IF next_packet = erx_start THEN erx_end ELSE (next_packet - 1) % U16

rdpt_overflows(next_packet, erx_start) ==
    next_packet # erx_start /\ next_packet = 0

\* a free_packet that writes the new read pointer to ERXST
free_packet_moves_start(m, next_packet, copy_len, wrap) ==
    Then(read_u16(m, ERXSTL, ERXSTH), LAMBDA m1 :
    Then(read_u16(m1, ERXNDL, ERXNDH), LAMBDA m2 :
        IF m2.err THEN m2
        ELSE IF rdpt_overflows(next_packet, m1.val) /\ ~wrap THEN
            Panic([m2 EXCEPT !.info.erx_start = m1.val, !.info.erx_end = m2.val])
        ELSE
            Then(new_rdpt(next_packet, m1.val, m2.val), LAMBDA rdpt :
            Then(write_u16(m2, ERXSTL, ERXSTH, rdpt), LAMBDA m3 :
            Then(spi_write(m3, <<opcode(ECON2, BFS), PKTDEC_MASK>>), LAMBDA m4 :
                [m4 EXCEPT !.val = copy_len,
                           !.info.erx_start = m1.val,
                           !.info.erx_end = m2.val,
                           !.info.new_rdpt = rdpt])))))

\* lines 295-315: advance ERXRDPT and decrement the packet count
free_packet(m, next_packet, copy_len, wrap) ==
    Then(read_u16(m, ERXSTL, ERXSTH), LAMBDA m1 :
    Then(read_u16(m1, ERXNDL, ERXNDH), LAMBDA m2 :
        IF m2.err THEN m2
        ELSE IF rdpt_overflows(next_packet, m1.val) /\ ~wrap THEN
            Panic([m2 EXCEPT !.info.erx_start = m1.val, !.info.erx_end = m2.val])
        ELSE
            Then(new_rdpt(next_packet, m1.val, m2.val), LAMBDA rdpt :
            Then(write_u16(m2, ERXRDPTL, ERXRDPTH, rdpt), LAMBDA m3 :
            Then(spi_write(m3, <<opcode(ECON2, BFS), PKTDEC_MASK>>), LAMBDA m4 :
                [m4 EXCEPT !.val = copy_len,
                           !.info.erx_start = m1.val,
                           !.info.erx_end = m2.val,
                           !.info.new_rdpt = rdpt])))))

NoInfo ==
    [packet_count |-> 0, rsv_at |-> 0, next_packet |-> 0, byte_count |-> 0,
     payload_len |-> 0, copy_len |-> 0, erx_start |-> 0, erx_end |-> 0,
     new_rdpt |-> 0, cnt_before |-> 0, rdpt_before |-> 0, buf_len |-> 0]

\* rsv_info without the CRC subtracted from byte_count
rsv_info_keeps_crc(i1, rsv, buf_len) ==
    Then(from_le_bytes(rsv[3], rsv[4]), LAMBDA byte_count :
        [i1 EXCEPT !.next_packet = from_le_bytes(rsv[1], rsv[2]),
                   !.byte_count = byte_count,
                   !.payload_len = byte_count,
                   !.copy_len = Min(byte_count, buf_len)])

\* lines 265-276: the receive status vector and the lengths derived from it
rsv_info(i1, rsv, buf_len) ==
    Then(from_le_bytes(rsv[3], rsv[4]), LAMBDA byte_count :
    Then(saturating_sub(byte_count, CRC_LEN), LAMBDA payload_len :
        [i1 EXCEPT !.next_packet = from_le_bytes(rsv[1], rsv[2]),
                   !.byte_count = byte_count,
                   !.payload_len = payload_len,
                   !.copy_len = Min(payload_len, buf_len)]))

\* lines 265-315: what receive does once EPKTCNT has read non-zero
take_packet(m, m1, i1, wrap) ==
    Then(mem_read(m1, RSV_LEN), LAMBDA m2 :
        IF m2.err THEN m2
        ELSE
            Then(rsv_info(i1, m2.rd, Len(m.buf)), LAMBDA i2 :
            Then(read_payload([m2 EXCEPT !.info = i2],
                              i2.payload_len, i2.copy_len), LAMBDA m3 :
                free_packet(m3, i2.next_packet, i2.copy_len, wrap))))

\* lines 260-263 and the locals the call starts with
receive_locals(m, m1) ==
    [NoInfo EXCEPT !.packet_count = m1.val,
                   !.rsv_at = Get16(m1.dev, ERDPTL),
                   !.cnt_before = m.dev.regs[RegKey(EPKTCNT)],
                   !.rdpt_before = Get16(m.dev, ERXRDPTL),
                   !.buf_len = Len(m.buf)]

\* receive without the early return on EPKTCNT = 0
receive_without_empty_check(m0, wrap) ==
    Then(m0, LAMBDA m :
    Then(read_control(m, EPKTCNT), LAMBDA m1 :
        IF m1.err THEN m1
        ELSE take_packet(m, m1, receive_locals(m, m1), wrap)))

receive(m0, wrap) ==
    Then(m0, LAMBDA m :
    Then(read_control(m, EPKTCNT), LAMBDA m1 :
        IF m1.err THEN m1
        ELSE IF m1.val = 0 THEN [m1 EXCEPT !.val = 0, !.info = receive_locals(m, m1)]
        ELSE take_packet(m, m1, receive_locals(m, m1), wrap)))

(***************************************************************************)
(* transmit                                                                *)
(***************************************************************************)
CONTROL_BYTE == 0

\* line 345-346: tx_start + (packet_len as u16) - 1
tx_end_overflows(tx_start, packet_len) ==
    \/ tx_start + (packet_len % U16) >= U16
    \/ (tx_start + (packet_len % U16)) % U16 = 0

\* tx_end one past the last byte of the frame
tx_end_value_past_end(tx_start, packet_len) ==
    (tx_start + (packet_len % U16)) % U16

tx_end_value(tx_start, packet_len) ==
    (((tx_start + (packet_len % U16)) % U16) - 1) % U16

\* lines 326-357: from the read of ETXST to the TXRTS request
transmit_start(m, dst, src, data, wrap) ==
    Then(read_u16(m, ETXSTL, ETXSTH), LAMBDA m1 :
    Then(write_u16(m1, EWRPTL, EWRPTH, m1.val), LAMBDA m2 :
    Then(mem_write(m2, <<CONTROL_BYTE>>), LAMBDA m3 :
    Then(mem_write(m3, dst), LAMBDA m4 :
    Then(mem_write(m4, src), LAMBDA m5 :
    Then(mem_write(m5, data), LAMBDA m6 :
    Then(Len(<<CONTROL_BYTE>>) + Len(src) + Len(dst) + Len(data),
         LAMBDA packet_len :
        IF m6.err THEN m6
        ELSE IF tx_end_overflows(m1.val, packet_len) /\ ~wrap THEN Panic(m6)
        ELSE
            Then(write_u16(m6, ETXNDL, ETXNDH,
                           tx_end_value(m1.val, packet_len)), LAMBDA m7 :
            Then(spi_write(m7, <<opcode(EIR, BFC), TXIF_MASK>>), LAMBDA m8 :
                spi_write(m8, <<opcode(ECON1, BFS), TXRTS_MASK>>))))))))))

\* transmit_finish that leaves TXABRT set
transmit_finish_keeps_txabrt(m) ==
    Then(read_control(m, ESTAT), LAMBDA m1 :
        IF m1.err THEN m1
        ELSE [m1 EXCEPT !.val = 0, !.aborted = BitAnd(m1.val, TXABRT_MASK) # 0])

\* lines 367-377: what transmit does once TXRTS has read clear
transmit_finish(m) ==
    Then(read_control(m, ESTAT), LAMBDA m1 :
        IF m1.err THEN m1
        ELSE IF BitAnd(m1.val, TXABRT_MASK) # 0
        THEN [spi_write(m1, <<opcode(ESTAT, BFC), TXABRT_MASK>>)
                 EXCEPT !.val = 0, !.aborted = TRUE]
        ELSE [m1 EXCEPT !.val = 0])

\* the Result an operation hands to its caller: Err only for an SPI error
result(m) == IF m.panic THEN "panic" ELSE IF m.err THEN "err" ELSE "ok"

(***************************************************************************)
(* initialize                                                              *)
(***************************************************************************)
RX_START == 0
TX_START == 4096
RX_END == TX_START - 1
MACON3_MASK == 51
MAX_FRAME_LENGTH == 1518

SkipRevisions == {0, 255, 2, 8, 5, 6}

\* lines 40-43: soft reset, delay, revision probe (a failed read counts as 0xff)
init_probe(m) ==
    Then(reset_via_spi(m), LAMBDA m1 :
        IF m1.err THEN m1
        ELSE Then(read_control(m1, EREVID), LAMBDA m2 :
                IF m2.err THEN [m2 EXCEPT !.err = FALSE, !.val = 255]
                ELSE m2))

\* a CLKRDY test that takes any ESTAT value
clock_ready_any(estat) == estat >= 0

\* a TXRTS test that takes any ECON1 value
tx_done_always(econ1) == econ1 >= 0

\* the exit conditions of the three busy polls (lines 50, 233, 362)
clock_ready(estat) == BitAnd(estat, CLKRDY_MASK) # 0
mii_idle(mistat) == BitAnd(mistat, BUSY_MASK) = 0
tx_done(econ1) == BitAnd(econ1, TXRTS_MASK) = 0

\* lines 56-136, one entry per statement
W8(reg, v) == [k |-> "wc", lo |-> reg, hi |-> reg, v |-> v]
W16(l, h, v) == [k |-> "w16", lo |-> l, hi |-> h, v |-> v]
WPhy(reg, v) == [k |-> "wphy", lo |-> reg, hi |-> reg, v |-> v]

InitScript ==
    << [k |-> "autoinc", lo |-> ECON2, hi |-> ECON2, v |-> AUTOINC_MASK],
       W16(ERXSTL, ERXSTH, RX_START),
       W16(ERXNDL, ERXNDH, RX_END),
       W16(ERXRDPTL, ERXRDPTH, RX_START),
       W16(ETXSTL, ETXSTH, TX_START),
       W8(MACON1, 1),
       W8(MACON3, MACON3_MASK),
       W16(MAMXFLL, MAMXFLH, MAX_FRAME_LENGTH),
       W8(MABBIPG, 21),
       W8(MAIPGL, 6),
       W8(MAADR1, 255),
       W8(MAADR2, 202),
       W8(MAADR3, 222),
       W8(MAADR4, 238),
       W8(MAADR5, 255),
       W8(MAADR6, 192),
       W8(ERXFCON, 0),
       WPhy(PHCON1, 256),
       WPhy(PHCON2, 256),
       W8(EIE, 192),
       W8(ECON1, RXEN_MASK) >>

init_statement(m, s) ==
    IF s.k = "autoinc" THEN ensure_autoinc(m)
    ELSE IF s.k = "wc" THEN write_control(m, s.lo, s.v)
    ELSE IF s.k = "w16" THEN write_u16(m, s.lo, s.hi, s.v)
    ELSE write_phy(m, s.lo, s.v)

(***************************************************************************)
(* State                                                                   *)
(***************************************************************************)
VARIABLES
    current_bank,   \* Enc28j60.current_bank
    dev,            \* the device: regs, phy, mii, pkts, rdrst
    trace,          \* the SPI commands of the operation in progress or last run
    pc,             \* where the caller is: "idle", inside an operation, "panicked"
    ret,            \* the operation last started and what it returned
    buf,            \* the caller's receive buffer
    info,           \* what the last receive read and computed
    fuel,           \* SPI transactions left before the bus fails (0: never)
    step,           \* next statement of InitScript
    polls,          \* busy reads of the poll loop in progress
    ops,            \* public operations started
    failed          \* some operation so far did not return Ok

vars == <<current_bank, dev, trace, pc, ret, buf, info, fuel, step, polls, ops, failed>>

BufLens == {0, 2, 8}
\* the caller's buffers, filled with a byte no frame contains
Buffers == {[i \in 1 .. n |-> 238] : n \in BufLens}
NoFaults == {0}

MacDst == <<1, 2, 3, 4, 5, 6>>
MacSrc == <<17, 18, 19, 20, 21, 22>>
TxData == {<<>>, <<8, 0, 222, 173>>}

RcRegs == {EPKTCNT, EREVID, ESTAT}
WcArgs == {<<ECON1, RXEN_MASK>>, <<MAADR1, 255>>}
PhyRegs == {PHCON2}
PhyData == {256}

Machine(f, b, tr) ==
    [bank |-> current_bank, dev |-> dev, trace |-> tr, fuel |-> f,
     err |-> FALSE, panic |-> FALSE, aborted |-> FALSE,
     val |-> 0, rd |-> <<>>, buf |-> b, info |-> NoInfo]

Commit(m) ==
    /\ current_bank' = m.bank
    /\ dev' = m.dev
    /\ trace' = m.trace
    /\ fuel' = m.fuel

Return(m, op) ==
    /\ pc' = IF m.panic THEN "panicked" ELSE "idle"
    /\ ret' = [op |-> op, st |-> result(m), val |-> m.val, aborted |-> m.aborted]
    /\ failed' = (failed \/ m.err)

Running(op, at) ==
    /\ pc' = at
    /\ ret' = [op |-> op, st |-> "run", val |-> 0, aborted |-> FALSE]
    /\ UNCHANGED failed

Start ==
    /\ pc = "idle"
    /\ ops < MaxOps
    /\ ops' = ops + 1

NoReceive == buf' = <<>> /\ info' = NoInfo

InitWith(revs) ==
    /\ current_bank = Bank0
    /\ \E rev \in revs, rd \in ErdptResets :
          dev = [regs |-> ResetRegs(rev, rd), phy |-> [a \in PhyAddrs |-> 0],
                 mii |-> "idle", pkts |-> <<>>, rdrst |-> rd]
    /\ trace = <<>>
    /\ pc = "idle"
    /\ ret = [op |-> "new", st |-> "ok", val |-> 0, aborted |-> FALSE]
    /\ buf = <<>>
    /\ info = NoInfo
    /\ fuel = 0
    /\ step = 0
    /\ polls = 0
    /\ ops = 0
    /\ failed = FALSE

Init == InitWith(Revisions)

(***************************************************************************)
(* initialize, statement by statement                                      *)
(***************************************************************************)
Initialize(f) ==
    /\ Start
    /\ \E m \in {init_probe(Machine(f, buf, <<>>))} :
          /\ Commit(m)
          /\ IF m.err THEN Return(m, "initialize") /\ step' = 0
             ELSE IF m.val \in SkipRevisions
                  THEN Running("initialize", "init_cfg") /\ step' = 1
                  ELSE Running("initialize", "init_poll") /\ step' = 0
    /\ polls' = 0
    /\ NoReceive

\* lines 48-53
InitPoll ==
    /\ pc = "init_poll"
    /\ \E m \in {read_control(Machine(fuel, buf, trace), ESTAT)} :
          /\ (m.err \/ clock_ready(m.val) \/ polls < MaxPoll)
          /\ Commit(m)
          /\ IF m.err THEN Return(m, "initialize") /\ step' = 0
             ELSE IF clock_ready(m.val)
                  THEN Running("initialize", "init_cfg") /\ step' = 1
                  ELSE Running("initialize", "init_poll") /\ step' = 0
    /\ polls' = polls + 1
    /\ UNCHANGED <<buf, info, ops>>

InitStep ==
    /\ pc = "init_cfg"
    /\ \E m \in {init_statement(Machine(fuel, buf, trace), InitScript[step])} :
          /\ Commit(m)
          /\ IF m.err \/ step = Len(InitScript)
             THEN Return(m, "initialize") /\ step' = 0
             ELSE Running("initialize", "init_cfg") /\ step' = step + 1
    /\ UNCHANGED <<buf, info, polls, ops>>

(***************************************************************************)
(* The other public operations                                             *)
(***************************************************************************)
Reset ==
    /\ Start
    /\ dev' = DevReset(dev)
    /\ trace' = <<>>
    /\ pc' = "idle"
    /\ ret' = [op |-> "reset", st |-> "ok", val |-> 0, aborted |-> FALSE]
    /\ NoReceive
    /\ UNCHANGED <<current_bank, fuel, step, polls, failed>>

ResetViaSpi(f) ==
    /\ Start
    /\ \E m \in {reset_via_spi(Machine(f, buf, <<>>))} :
          Commit(m) /\ Return(m, "reset_via_spi")
    /\ NoReceive
    /\ UNCHANGED <<step, polls>>

ReadControl(f, reg) ==
    /\ Start
    /\ \E m \in {read_control(Machine(f, buf, <<>>), reg)} :
          Commit(m) /\ Return(m, "read_control")
    /\ NoReceive
    /\ UNCHANGED <<step, polls>>

WriteControl(f, reg, data) ==
    /\ Start
    /\ \E m \in {write_control(Machine(f, buf, <<>>), reg, data)} :
          Commit(m) /\ Return(m, "write_control")
    /\ NoReceive
    /\ UNCHANGED <<step, polls>>

WritePhy(f, reg, data) ==
    /\ Start
    /\ \E m \in {write_phy(Machine(f, buf, <<>>), reg, data)} :
          Commit(m) /\ Return(m, "write_phy")
    /\ NoReceive
    /\ UNCHANGED <<step, polls>>

ReadPhy(f, reg) ==
    /\ Start
    /\ \E m \in {read_phy_start(Machine(f, buf, <<>>), reg)} :
          /\ Commit(m)
          /\ IF m.err THEN Return(m, "read_phy")
             ELSE Running("read_phy", "phy_poll")
    /\ polls' = 0
    /\ NoReceive
    /\ UNCHANGED step

\* lines 231-242
ReadPhyPoll ==
    /\ pc = "phy_poll"
    /\ \E m \in {read_control(Machine(fuel, buf, trace), MISTAT)} :
          /\ (m.err \/ mii_idle(m.val) \/ polls < MaxPoll)
          /\ IF ~m.err /\ mii_idle(m.val)
             THEN \E m1 \in {read_phy_finish(m)} :
                      Commit(m1) /\ Return(m1, "read_phy")
             ELSE /\ Commit(m)
                  /\ IF m.err THEN Return(m, "read_phy")
                     ELSE Running("read_phy", "phy_poll")
    /\ polls' = polls + 1
    /\ UNCHANGED <<buf, info, step, ops>>

Receive(f, b, wrap) ==
    /\ Start
    /\ \E m \in {receive(Machine(f, b, <<>>), wrap)} :
          /\ Commit(m)
          /\ Return(m, "receive")
          /\ buf' = m.buf
          /\ info' = m.info
    /\ UNCHANGED <<step, polls>>

Transmit(f, dst, src, data, wrap) ==
    /\ Start
    /\ \E m \in {transmit_start(Machine(f, buf, <<>>), dst, src, data, wrap)} :
          /\ Commit(m)
          /\ IF m.err THEN Return(m, "transmit")
             ELSE Running("transmit", "tx_poll")
    /\ polls' = 0
    /\ NoReceive
    /\ UNCHANGED step

\* lines 360-377
TransmitPoll ==
    /\ pc = "tx_poll"
    /\ \E m \in {read_control(Machine(fuel, buf, trace), ECON1)} :
          /\ (m.err \/ tx_done(m.val) \/ polls < MaxPoll)
          /\ IF ~m.err /\ tx_done(m.val)
             THEN \E m1 \in {transmit_finish(m)} :
                      Commit(m1) /\ Return(m1, "transmit")
             ELSE /\ Commit(m)
                  /\ IF m.err THEN Return(m, "transmit")
                     ELSE Running("transmit", "tx_poll")
    /\ polls' = polls + 1
    /\ UNCHANGED <<buf, info, step, ops>>

(***************************************************************************)
(* The device acting on its own                                            *)
(***************************************************************************)
DevUnchanged == UNCHANGED <<current_bank, trace, pc, ret, buf, info, fuel, step,
                            polls, ops, failed>>

\* the oscillator start-up timer expires (seen by the driver only in the
\* CLKRDY poll, so it is placed there)
DevClkReady ==
    /\ pc = "init_poll"
    /\ BitAnd(dev.regs[RegKey(ESTAT)], CLKRDY_MASK) = 0
    /\ dev' = [dev EXCEPT !.regs[RegKey(ESTAT)] = BitOr(@, CLKRDY_MASK)]
    /\ DevUnchanged

\* a frame arrives while reception is enabled (between two operations: no
\* operation but receive looks at the ring, and receive is one step)
DevRxPacket(f) ==
    /\ pc = "idle"
    /\ BitAnd(dev.regs[RegKey(ECON1)], RXEN_MASK) # 0
    /\ Len(dev.pkts) < MaxPackets
    /\ LET wr == Get16(dev, ERXWRPTL)
           st == Get16(dev, ERXSTL)
           nd == Get16(dev, ERXNDL)
           nx == RingAdd(st, nd, wr, RSV_LEN + Padded(f.len))
           e == [start |-> wr, rst |-> st, rnd |-> nd, next |-> nx, frame |-> f]
       IN dev' = [dev EXCEPT
                    !.pkts = Append(@, e),
                    !.regs = [Put16(@, ERXWRPTL, nx) EXCEPT
                                ![RegKey(EPKTCNT)] = dev.regs[RegKey(EPKTCNT)] + 1]]
    /\ DevUnchanged

\* the transmission requested by TXRTS ends, completed or aborted
DevTxDone(abort) ==
    /\ BitAnd(dev.regs[RegKey(ECON1)], TXRTS_MASK) # 0
    /\ dev' = [dev EXCEPT !.regs =
                 [@ EXCEPT ![RegKey(ECON1)] = BitClear(@, TXRTS_MASK),
                           ![RegKey(EIR)] = BitOr(@, TXIF_MASK),
                           ![RegKey(ESTAT)] =
                               IF abort THEN BitOr(@, TXABRT_MASK) ELSE @]]
    /\ DevUnchanged

\* the MII operation in progress completes
DevMiiDone ==
    /\ dev.mii # "idle"
    /\ LET a == dev.regs[RegKey(MIREGADR)]
           w == Get16(dev, MIWRL)
           r == IF a \in PhyAddrs THEN dev.phy[a] ELSE 0
       IN dev' = [dev EXCEPT
                    !.mii = "idle",
                    !.phy = IF dev.mii = "wr" /\ a \in PhyAddrs
                            THEN [@ EXCEPT ![a] = w] ELSE @,
                    !.regs = [(IF dev.mii = "rd" THEN Put16(@, MIRDL, r) ELSE @)
                                EXCEPT ![RegKey(MISTAT)] = BitClear(@, BUSY_MASK)]]
    /\ DevUnchanged

Next ==
    \/ \E f \in NoFaults : Initialize(f)
    \/ InitPoll
    \/ InitStep
    \/ Reset
    \/ \E f \in NoFaults : ResetViaSpi(f)
    \/ \E f \in NoFaults, reg \in RcRegs : ReadControl(f, reg)
    \/ \E f \in NoFaults, a \in WcArgs : WriteControl(f, a[1], a[2])
    \/ \E f \in NoFaults, reg \in PhyRegs, data \in PhyData : WritePhy(f, reg, data)
    \/ \E f \in NoFaults, reg \in PhyRegs : ReadPhy(f, reg)
    \/ ReadPhyPoll
    \/ \E f \in NoFaults, b \in Buffers, wrap \in BOOLEAN : Receive(f, b, wrap)
    \/ \E f \in NoFaults, data \in TxData, wrap \in BOOLEAN :
          Transmit(f, MacDst, MacSrc, data, wrap)
    \/ TransmitPoll
    \/ DevClkReady
    \/ \E f \in Frames : DevRxPacket(f)
    \/ \E abort \in BOOLEAN : DevTxDone(abort)
    \/ DevMiiDone

Spec == Init /\ [][Next]_vars

(***************************************************************************)
(* Reading the command trace                                               *)
(***************************************************************************)
\* the three opcode bits and the five argument bits of a command byte
OpOf(e) == (e.tx[1] \div 32) * 32
ArgOf(e) == e.tx[1] % 32

IsSrc(e) == e.tx = <<255>>
IsRegCmd(e) == ~IsSrc(e) /\ OpOf(e) \in {RCR, WCR, BFS, BFC}
IsMemRead(e) == OpOf(e) = RBM /\ ArgOf(e) = RBM_MAGIC
IsMemWrite(e) == OpOf(e) = WBM /\ ArgOf(e) = WBM_MAGIC

\* a read or write of a register that exists once per bank (address below EIE)
AccessesBanked(e) == IsRegCmd(e) /\ OpOf(e) \in {RCR, WCR} /\ ArgOf(e) < EIE.addr

IsCmd(e, reg, op) == ~IsSrc(e) /\ e.tx[1] = opcode(reg, op)

\* an operation returned Ok and nothing before it failed
Returned(op) == pc = "idle" /\ ret.op = op /\ ret.st = "ok" /\ ~failed

(***************************************************************************)
(* C1: after any run of successful public operations, when the operation   *)
(* that just returned ended on an access to a banked register, the cached  *)
(* current_bank equals the bank bits ECON1[1:0] the device holds.          *)
(***************************************************************************)
C1_BankCacheMatchesDevice ==
    (/\ pc = "idle" /\ ret.st = "ok" /\ ~failed
     /\ ret.op \in {"initialize", "read_control", "write_control", "read_phy",
                    "write_phy", "receive", "transmit"}
     /\ trace # <<>>
     /\ AccessesBanked(trace[Len(trace)]))
    => current_bank = DevBank(dev)

\* the receive that just returned found a packet pending
TookPacket == ret.op = "receive" /\ info.packet_count # 0

\* the receive ring is where initialize puts it
RingInitialized ==
    Get16(dev, ERXSTL) = RX_START /\ Get16(dev, ERXNDL) = RX_END

\* the receive read its status vector where the first packet starts
ReadFirstPacket == dev.pkts # <<>> /\ info.rsv_at = dev.pkts[1].start

(***************************************************************************)
(* C2: when receive has consumed a packet and returned, the device's       *)
(* buffer read pointer ERDPT stands at the next_packet address the call    *)
(* decoded from the receive status vector, whatever byte_count and         *)
(* buf.len() were.  Stated for the best case: the ring as initialize       *)
(* programs it, the status vector read where the packet starts, and a      *)
(* buffer that takes the whole payload of at least one byte.               *)
(***************************************************************************)
C2_ReadPointerAtNextPacket ==
    (/\ Returned("receive") /\ TookPacket
     /\ RingInitialized /\ ReadFirstPacket
     /\ 0 < info.payload_len /\ info.payload_len <= info.buf_len)
    => Get16(dev, ERDPTL) = info.next_packet

\* the step in which a call of op returns Ok to its caller at once
ReturnsOk(op) == ops' = ops + 1 /\ ret'.op = op /\ ret'.st = "ok"

IsPktdec(e) == e.tx = <<opcode(ECON2, BFS), PKTDEC_MASK>>

C4_ErxrdptFromNextPacket ==
    (pc \in {"idle", "panicked"} /\ TookPacket /\ ret.st \in {"ok", "panic"})
    => LET n == Len(trace)
           expected == IF info.next_packet = info.erx_start
                       THEN info.erx_end ELSE info.next_packet - 1
       IN /\ n >= 3
          /\ expected \in 0 .. U16 - 1
          /\ trace[n - 2].tx = <<opcode(ERXRDPTL, WCR), expected % 256>>
          /\ trace[n - 1].tx = <<opcode(ERXRDPTH, WCR), expected \div 256>>
          /\ trace[n - 2].bank = Bank0 /\ trace[n - 1].bank = Bank0
          /\ IsPktdec(trace[n])

\* bytes clocked out of buffer memory by the first n commands of a trace
RECURSIVE MemBytesRead(_, _)
MemBytesRead(tr, n) ==
    IF n = 0 THEN 0
    ELSE MemBytesRead(tr, n - 1) + (IF IsMemRead(tr[n]) THEN tr[n].rx ELSE 0)

(***************************************************************************)
(* C5: a receive that takes a packet reads exactly payload_len bytes of    *)
(* buffer memory after the six status bytes (copy_len into buf, the rest   *)
(* into the scratch buffer) and returns copy_len, for every payload_len    *)
(* and every buf.len(), 0 included.  Stated for the ring as initialize     *)
(* programs it and the status vector read where the packet starts.         *)
(***************************************************************************)
C5_ConsumesWholePayload ==
    (Returned("receive") /\ TookPacket /\ RingInitialized /\ ReadFirstPacket)
    => /\ MemBytesRead(trace, Len(trace)) = RSV_LEN + info.payload_len
       /\ ret.val = info.copy_len

(***************************************************************************)
(* C6: a receive that reads EPKTCNT = 0 returns 0 and has issued no RBM,   *)
(* no write to ERXRDPTL or ERXRDPTH and no PKTDEC; buf is as the caller    *)
(* passed it, and ERDPT, ERXRDPT and EPKTCNT of the device are unchanged.  *)
(***************************************************************************)
C6_EmptyReceiveChangesNothing ==
    [][(ReturnsOk("receive") /\ info'.packet_count = 0) =>
         /\ ret'.val = 0
         /\ \A i \in DOMAIN trace' :
               /\ ~IsMemRead(trace'[i])
               /\ ~IsPktdec(trace'[i])
               /\ ~IsCmd(trace'[i], ERXRDPTL, WCR)
               /\ ~IsCmd(trace'[i], ERXRDPTH, WCR)
         /\ buf' \in Buffers
         /\ Get16(dev', ERDPTL) = Get16(dev, ERDPTL)
         /\ Get16(dev', ERXRDPTL) = Get16(dev, ERXRDPTL)
         /\ dev'.regs[RegKey(EPKTCNT)] = dev.regs[RegKey(EPKTCNT)]
      ]_vars

\* receive on an initialized device that holds no packet, with an 8-byte buffer
C6_Witness_NothingPending ==
    /\ Returned("receive") /\ info.packet_count = 0
    /\ RingInitialized /\ dev.pkts = <<>>
    /\ Len(buf) = 8 /\ ret.val = 0
    /\ Len(trace) = 3

\* the two commands of set_bank
IsBankSwitch(e) ==
    \/ e.tx = <<opcode(ECON1, BFC), 3>>
    \/ IsCmd(e, ECON1, BFS) /\ e.tx[2] <= 3

NotBankSwitch(e) == ~IsBankSwitch(e)

\* the bytes of the commands of a trace, bank switches left out
Commands(tr) ==
    LET t == SelectSeq(tr, NotBankSwitch) IN [i \in DOMAIN t |-> t[i].tx]

Wbm(data) == <<WBM + WBM_MAGIC>> \o data

(***************************************************************************)
(* C7: a transmit that returns Ok has issued, bank switches aside: RCR     *)
(* ETXSTL, RCR ETXSTH; WCR EWRPTL, EWRPTH with ETXST; WBM of the control   *)
(* byte 0x00, of dst, of src, of data; WCR ETXNDL, ETXNDH with             *)
(* ETXST + 1 + 6 + 6 + data.len() - 1; BFC EIR 0x08; BFS ECON1 0x08; one   *)
(* or more RCR ECON1; RCR ESTAT (and at most a BFC ESTAT after it).  TXRTS *)
(* is requested once, after the frame and ETXND.                           *)
(***************************************************************************)
C7_TransmitCommandOrder ==
    Returned("transmit") =>
      LET t == Commands(trace)
          n == Len(t)
          st == Get16(dev, ETXSTL)
      IN /\ n >= 14
         /\ t[1] = <<opcode(ETXSTL, RCR), 0>>
         /\ t[2] = <<opcode(ETXSTH, RCR), 0>>
         /\ t[3] = <<opcode(EWRPTL, WCR), st % 256>>
         /\ t[4] = <<opcode(EWRPTH, WCR), st \div 256>>
         /\ t[5] = Wbm(<<0>>)
         /\ t[6] = Wbm(MacDst)
         /\ t[7] = Wbm(MacSrc)
         /\ \E data \in TxData :
               LET tx_end == st + 1 + 6 + 6 + Len(data) - 1
               IN /\ t[8] = Wbm(data)
                  /\ t[9] = <<opcode(ETXNDL, WCR), tx_end % 256>>
                  /\ t[10] = <<opcode(ETXNDH, WCR), tx_end \div 256>>
                  /\ Get16(dev, ETXNDL) = tx_end
                  /\ Get16(dev, EWRPTL) = tx_end + 1
         /\ t[11] = <<opcode(EIR, BFC), 8>>
         /\ t[12] = <<opcode(ECON1, BFS), 8>>
         /\ \E k \in 13 .. n - 1 :
               /\ \A i \in 13 .. k : t[i] = <<opcode(ECON1, RCR), 0>>
               /\ t[k + 1] = <<opcode(ESTAT, RCR), 0>>
               /\ \/ n = k + 1
                  \/ n = k + 2 /\ t[n] = <<opcode(ESTAT, BFC), 2>>
         /\ Cardinality({i \in 1 .. n : t[i] = <<opcode(ECON1, BFS), 8>>}) = 1

\* a transmit of four data bytes after initialize that saw TXRTS busy once
C7_Witness_FrameSent ==
    /\ Returned("transmit")
    /\ Get16(dev, ETXSTL) = TX_START
    /\ \E i \in DOMAIN trace : trace[i].tx = Wbm(<<8, 0, 222, 173>>)
    /\ Cardinality({i \in DOMAIN trace : trace[i].tx = <<opcode(ECON1, RCR), 0>>}) = 2
    /\ Get16(dev, ETXNDL) = TX_START + 16

\* a transmit has returned, having read ESTAT.TXABRT set
TransmitAborted ==
    pc = "idle" /\ ret.op = "transmit" /\ ret.st # "run" /\ ret.aborted

(***************************************************************************)
(* C8: when ESTAT.TXABRT reads set after TXRTS has cleared, transmit       *)
(* returns an error (Aborted) to its caller; it returns Ok only when       *)
(* TXABRT read clear.                                                      *)
(***************************************************************************)
C8_AbortSurfaced == TransmitAborted => ret.st # "ok"

(***************************************************************************)
(* C9: when ESTAT.TXABRT reads set after TXRTS has cleared, transmit ends  *)
(* with a BFC on ESTAT with mask 0x02, so that TXABRT is clear once it has *)
(* returned, and returns Ok; when TXABRT reads clear it issues no BFC on   *)
(* ESTAT.                                                                  *)
(***************************************************************************)
C9_AbortClearedWithoutError ==
    (pc = "idle" /\ ret.op = "transmit" /\ ~failed) =>
      LET clears == {i \in DOMAIN trace : IsCmd(trace[i], ESTAT, BFC)}
      IN IF ret.aborted
         THEN /\ clears = {Len(trace)}
              /\ trace[Len(trace)].tx = <<opcode(ESTAT, BFC), 2>>
              /\ trace[Len(trace) - 1].tx = <<opcode(ESTAT, RCR), 0>>
              /\ BitAnd(dev.regs[RegKey(ESTAT)], TXABRT_MASK) = 0
              /\ ret.st = "ok"
         ELSE clears = {}

\* a transmit the device aborted has returned Ok
C9_Witness_AbortedOk ==
    /\ TransmitAborted /\ ret.st = "ok" /\ ~failed
    /\ BitAnd(dev.regs[RegKey(EIR)], TXIF_MASK) # 0

\* the commands of a trace that are neither register reads nor bank switches
IsWrite(e) == ~IsBankSwitch(e) /\ ~(IsRegCmd(e) /\ OpOf(e) = RCR)

Writes(tr) == LET t == SelectSeq(tr, IsWrite) IN [i \in DOMAIN t |-> t[i].tx]

Wcr(reg, v) == <<opcode(reg, WCR), v>>

(***************************************************************************)
(* C10: on a device of revision 0x04 with SPI never failing, the commands  *)
(* of initialize other than register reads and bank switches are, in this  *)
(* order: SRC 0xFF; BFS ECON2 0x80; ERXST = 0x0000; ERXND = 0x0FFF;        *)
(* ERXRDPT = 0x0000; ETXST = 0x1000; MACON1 = 0x01; MACON3 = 0x33;         *)
(* MAMXFL = 1518; MABBIPG = 0x15; MAIPGL = 0x06; MAADR1..6; ERXFCON = 0;   *)
(* PHCON1 = 0x0100; PHCON2 = 0x0100; EIE = 0xC0; ECON1 = 0x04, the write   *)
(* that sets RXEN being the last command.                                  *)
(***************************************************************************)
C10_InitializeOrder ==
    (Returned("initialize") /\ dev.regs[RegKey(EREVID)] = 4) =>
      /\ Writes(trace) =
           << <<255>>,
              <<opcode(ECON2, BFS), 128>>,
              Wcr(ERXSTL, 0), Wcr(ERXSTH, 0),
              Wcr(ERXNDL, 255), Wcr(ERXNDH, 15),
              Wcr(ERXRDPTL, 0), Wcr(ERXRDPTH, 0),
              Wcr(ETXSTL, 0), Wcr(ETXSTH, 16),
              Wcr(MACON1, 1),
              Wcr(MACON3, 51),
              Wcr(MAMXFLL, 1518 % 256), Wcr(MAMXFLH, 1518 \div 256),
              Wcr(MABBIPG, 21),
              Wcr(MAIPGL, 6),
              Wcr(MAADR1, 255), Wcr(MAADR2, 202), Wcr(MAADR3, 222),
              Wcr(MAADR4, 238), Wcr(MAADR5, 255), Wcr(MAADR6, 192),
              Wcr(ERXFCON, 0),
              Wcr(MIREGADR, 0), Wcr(MIWRL, 0), Wcr(MIWRH, 1),
              Wcr(MIREGADR, 16), Wcr(MIWRL, 0), Wcr(MIWRH, 1),
              Wcr(EIE, 192),
              Wcr(ECON1, 4) >>
      /\ trace[Len(trace)].tx = Wcr(ECON1, 4)
      /\ \A i \in 1 .. Len(trace) - 1 : trace[i].tx # Wcr(ECON1, 4)

\* initialize has returned Ok on a revision 0x04 device after waiting for CLKRDY
C10_Witness_Initialized ==
    /\ Returned("initialize") /\ dev.regs[RegKey(EREVID)] = 4
    /\ Cardinality({i \in DOMAIN trace : trace[i].tx = <<opcode(ESTAT, RCR), 0>>}) = 2
    /\ BitAnd(dev.regs[RegKey(ECON1)], RXEN_MASK) # 0
    /\ RingInitialized

(***************************************************************************)
(* initialize alone, on devices of every kind of revision                  *)
(***************************************************************************)
AnyRevisions == {0, 1, 2, 4, 5, 6, 8, 255}

NextInitialize ==
    \/ \E f \in NoFaults : Initialize(f)
    \/ InitPoll
    \/ InitStep
    \/ DevClkReady

SpecInitialize == InitWith(AnyRevisions) /\ [][NextInitialize]_vars

IsAutoinc(e) == e.tx = <<opcode(ECON2, BFS), AUTOINC_MASK>>
IsRead(e, reg) == e.tx = <<opcode(reg, RCR), 0>>

\* the positions of the commands of a trace that satisfy a test
Where(tr, Test(_)) == {i \in DOMAIN tr : Test(tr[i])}

IsReadEstat(e) == IsRead(e, ESTAT)
IsReadErevid(e) == IsRead(e, EREVID)

\* the revision initialize read: the second byte of the answer to RCR EREVID
RevisionRead == trace[CHOOSE i \in Where(trace, IsReadErevid) : TRUE].rsp[2]

(***************************************************************************)
(* C11: in initialize, when EREVID read 0x00, 0xFF, 0x02, 0x08, 0x05 or    *)
(* 0x06, no read of ESTAT comes before the AUTOINC command; for any other  *)
(* value the command right before AUTOINC is a read of ESTAT that returned *)
(* bit 0 = 1, and every earlier read of ESTAT returned bit 0 = 0.          *)
(***************************************************************************)
C11_ClkrdyPollByRevision ==
    (ret.op = "initialize" /\ Where(trace, IsReadErevid) # {}) =>
      LET polls_at == Where(trace, IsReadEstat)
          autoinc_at == Where(trace, IsAutoinc)
      IN IF RevisionRead \in {0, 255, 2, 8, 5, 6}
         THEN polls_at = {} /\ pc # "init_poll"
         ELSE \A a \in autoinc_at :
                 /\ a - 1 \in polls_at
                 /\ trace[a - 1].rsp[2] % 2 = 1
                 /\ \A e \in polls_at : e < a - 1 => trace[e].rsp[2] % 2 = 0

\* revision 0x01: AUTOINC was issued after two reads of ESTAT
C11_Witness_WaitedForClock ==
    /\ ret.op = "initialize" /\ Where(trace, IsReadErevid) # {}
    /\ RevisionRead = 1
    /\ Cardinality(Where(trace, IsReadEstat)) = 2
    /\ Where(trace, IsAutoinc) # {}

(***************************************************************************)
(* The driver on a bus that fails once: the f-th SPI transaction counted   *)
(* from the start of an operation returns Err                              *)
(***************************************************************************)
MaxFault == 18

Faults == 0 .. MaxFault

\* the run is followed up to its first reported failure, and a fault point past
\* the last transaction of the operation is the same run as no fault
FirstFault ==
    /\ ~failed
    /\ pc' \in {"idle", "panicked"} => fuel' = 0

NextFault ==
    \/ \E f \in Faults : Initialize(f) /\ FirstFault
    \/ InitPoll /\ FirstFault
    \/ InitStep /\ FirstFault
    \/ \E f \in Faults : ReadControl(f, EPKTCNT) /\ FirstFault
    \/ \E f \in Faults : WriteControl(f, ECON1, RXEN_MASK) /\ FirstFault
    \/ \E f \in Faults, reg \in PhyRegs, data \in PhyData :
          WritePhy(f, reg, data) /\ FirstFault
    \/ \E f \in Faults, reg \in PhyRegs : ReadPhy(f, reg) /\ FirstFault
    \/ ReadPhyPoll /\ FirstFault
    \/ \E f \in Faults, b \in {x \in Buffers : Len(x) = 2} :
          Receive(f, b, FALSE) /\ FirstFault
    \/ \E f \in Faults, data \in {x \in TxData : x # <<>>} :
          Transmit(f, MacDst, MacSrc, data, FALSE) /\ FirstFault
    \/ TransmitPoll /\ FirstFault
    \/ DevClkReady
    \/ \E f \in {x \in Frames : x.len = 10} : DevRxPacket(f)
    \/ \E abort \in BOOLEAN : DevTxDone(abort)
    \/ DevMiiDone

SpecFault == Init /\ [][NextFault]_vars

FailedAt(tr) == {i \in DOMAIN tr : ~tr[i].ok}

(***************************************************************************)
(* C12: a failed SPI transaction of initialize is the last transaction     *)
(* initialize issues, and initialize returns with that failure.            *)
(***************************************************************************)
C12_InitializeSurfacesFailure ==
    (ret.op = "initialize" /\ FailedAt(trace) # {}) =>
        /\ FailedAt(trace) = {Len(trace)}
        /\ pc = "idle"
        /\ ret.st = "err"

Propagating == {"read_control", "write_control", "read_phy", "write_phy",
                "receive", "transmit"}

(***************************************************************************)
(* C13: in read_control, write_control, read_phy, write_phy, receive and   *)
(* transmit a failed SPI transaction is the last transaction of the        *)
(* operation (it is not issued again and nothing follows it), and the      *)
(* operation returns the error.                                            *)
(***************************************************************************)
C13_ErrorPropagates ==
    (ret.op \in Propagating /\ FailedAt(trace) # {}) =>
        /\ FailedAt(trace) = {Len(trace)}
        /\ pc = "idle"
        /\ ret.st = "err"

\* a receive that read the status vector and failed reading the payload
C13_Witness_PayloadReadFails ==
    /\ ret.op = "receive" /\ ret.st = "err"
    /\ Len(trace) > 1
    /\ IsMemRead(trace[Len(trace)]) /\ ~trace[Len(trace)].ok
    /\ \E i \in 1 .. Len(trace) - 1 : IsMemRead(trace[i]) /\ trace[i].rx = RSV_LEN

TxOf(tr) == [i \in DOMAIN tr |-> tr[i].tx]

\* the commands a lazy access to reg emits, and the cache it leaves
LazyAccess(reg, cmd) ==
    LET switch == bank(reg) # NoBank /\ bank(reg) # current_bank
    IN /\ TxOf(trace') =
            (IF switch
             THEN <<<<opcode(ECON1, BFC), 3>>, <<opcode(ECON1, BFS), bank(reg)>>>>
             ELSE <<>>) \o <<cmd>>
       /\ current_bank' = IF switch THEN bank(reg) ELSE current_bank

\* mem_read and mem_write issued with the driver as it stands
MemOpsKeepBank ==
    LET m == Machine(0, buf, <<>>)
        r == mem_read(m, 1)
        w == mem_write(m, <<CONTROL_BYTE>>)
    IN /\ r.bank = current_bank /\ TxOf(r.trace) = <<<<RBM + RBM_MAGIC>>>>
       /\ w.bank = current_bank
       /\ TxOf(w.trace) = <<<<WBM + WBM_MAGIC, CONTROL_BYTE>>>>

(***************************************************************************)
(* C14: read_control and write_control emit the pair BFC ECON1 3, BFS      *)
(* ECON1 bank exactly when the register is banked and its bank differs     *)
(* from current_bank, immediately before the access, and then cache that   *)
(* bank; otherwise they emit the access alone and keep current_bank.       *)
(* mem_read and mem_write emit their one command and keep current_bank,    *)
(* whatever its value.                                                     *)
(***************************************************************************)
C14_LazyBankSwitch ==
    [][/\ \A reg \in RcRegs :
             ReadControl(0, reg) => LazyAccess(reg, <<opcode(reg, RCR), 0>>)
       /\ \A a \in WcArgs :
             WriteControl(0, a[1], a[2]) =>
                 LazyAccess(a[1], <<opcode(a[1], WCR), a[2]>>)
       /\ MemOpsKeepBank]_vars

\* the second of two accesses to one bank, and a global access made while
\* another bank is cached
C14_Witness_SameBankTwice ==
    /\ Returned("read_control") /\ ops = 2
    /\ current_bank = Bank1
    /\ TxOf(trace) \in {<<<<opcode(EPKTCNT, RCR), 0>>>>, <<<<opcode(ESTAT, RCR), 0>>>>}

(***************************************************************************)
(* The SimpleNetwork adapter (adapter/simple_network.rs, feature           *)
(* simple-network).  Its transmit calls the driver's transmit with         *)
(* dst.octets(), src.octets(), ether_type.as_u16() and data; the driver's  *)
(* transmit has the parameters dst, src and data, and no code of the crate *)
(* turns ether_type into octets or hands it to mem_write.  The adapter is  *)
(* modelled by the part of its call the driver has parameters for.         *)
(***************************************************************************)
EtherTypes == {2048, 34525}
Payloads == {<<>>, <<222, 173>>}

SimpleNetworkTransmit(f, dst, src, ether_type, data, wrap) ==
    Transmit(f, dst, src, data, wrap)

NextAdapter ==
    \/ \E f \in NoFaults : Initialize(f)
    \/ InitPoll
    \/ InitStep
    \/ \E f \in NoFaults, et \in EtherTypes, data \in Payloads, wrap \in BOOLEAN :
          SimpleNetworkTransmit(f, MacDst, MacSrc, et, data, wrap)
    \/ TransmitPoll
    \/ DevClkReady
    \/ \E abort \in BOOLEAN : DevTxDone(abort)

SpecAdapter == Init /\ [][NextAdapter]_vars

RECURSIVE WbmBytes(_)
\* the bytes the WBM commands of a trace put into buffer memory, in order
WbmBytes(tr) ==
    IF tr = <<>> THEN <<>>
    ELSE (IF IsMemWrite(Head(tr)) THEN Tail(Head(tr).tx) ELSE <<>>)
         \o WbmBytes(Tail(tr))

(***************************************************************************)
(* C15: the adapter's transmit(dst, src, ether_type, payload) writes to    *)
(* buffer memory the control byte 0, dst, src, the two EtherType octets    *)
(* high octet first, then payload, and has programmed                      *)
(* ETXND = ETXST + 1 + 6 + 6 + 2 + Len(payload) - 1 when it sets TXRTS.    *)
(***************************************************************************)
C15_AdapterFrameLayout ==
    [][\A et \in EtherTypes, data \in Payloads, wrap \in BOOLEAN :
          SimpleNetworkTransmit(0, MacDst, MacSrc, et, data, wrap) =>
              /\ WbmBytes(trace') =
                    <<CONTROL_BYTE>> \o MacDst \o MacSrc
                        \o <<et \div 256, et % 256>> \o data
              /\ trace'[Len(trace')].tx = <<opcode(ECON1, BFS), TXRTS_MASK>>
              /\ Get16(dev', ETXNDL) =
                    Get16(dev, ETXSTL) + 1 + 6 + 6 + 2 + Len(data) - 1]_vars

(***************************************************************************)
(* The three busy polls on their own.  The calling thread keeps running    *)
(* its loop (weak fairness of the poll and of the statements after it),    *)
(* and a device that works ends what it has begun: the oscillator start-up *)
(* timer, the MII operation, the transmission.                             *)
(***************************************************************************)
NextPoll ==
    \/ \E f \in NoFaults : Initialize(f)
    \/ InitPoll
    \/ InitStep
    \/ \E f \in NoFaults, reg \in PhyRegs : ReadPhy(f, reg)
    \/ ReadPhyPoll
    \/ \E f \in NoFaults, data \in TxData :
          Transmit(f, MacDst, MacSrc, data, FALSE)
    \/ TransmitPoll
    \/ DevClkReady
    \/ \E abort \in BOOLEAN : DevTxDone(abort)
    \/ DevMiiDone

SpecPoll ==
    /\ Init /\ [][NextPoll]_vars
    /\ WF_vars(InitPoll) /\ WF_vars(InitStep)
    /\ WF_vars(ReadPhyPoll) /\ WF_vars(TransmitPoll)
    /\ WF_vars(DevClkReady) /\ WF_vars(DevMiiDone)
    /\ WF_vars(\E abort \in BOOLEAN : DevTxDone(abort))

IsReadMistat(e) == IsRead(e, MISTAT)
IsReadEcon1(e) == IsRead(e, ECON1)

\* the reads of a poll so far: while the operation is in the poll none has shown
\* the awaited bit; once it is past the poll the last one has, and it alone
PollExit(in_poll, reads, Awaited(_)) ==
    IF in_poll THEN \A i \in reads : ~Awaited(trace[i])
    ELSE /\ reads # {}
         /\ \A i \in reads : Awaited(trace[i]) <=> (\A j \in reads : j <= i)

ClkrdySet(e) == e.rsp[2] % 2 = 1
MiiBusyClear(e) == e.rsp[3] % 2 = 0
TxrtsClear(e) == (e.rsp[2] \div 8) % 2 = 0

PollsExitOnAwaitedBit ==
    /\ (ret.op = "initialize" /\ Where(trace, IsReadErevid) # {}
          /\ RevisionRead \notin {0, 255, 2, 8, 5, 6}) =>
            PollExit(pc = "init_poll", Where(trace, IsReadEstat), ClkrdySet)
    /\ (ret.op = "read_phy" /\ pc # "panicked") =>
            PollExit(pc = "phy_poll", Where(trace, IsReadMistat), MiiBusyClear)
    /\ (ret.op = "transmit" /\ pc # "panicked") =>
            PollExit(pc = "tx_poll", Where(trace, IsReadEcon1), TxrtsClear)

(***************************************************************************)
(* C16: with SPI never failing, initialize (revision outside the skip set) *)
(* leaves its poll exactly on the first ESTAT read with bit 0 set,         *)
(* read_phy on the first MISTAT read with bit 0 clear, transmit on the     *)
(* first ECON1 read with bit 3 clear; no count of reads ends a poll.  On a *)
(* device that ends what it has begun each operation returns.              *)
(***************************************************************************)
C16_PollsEndOnlyOnAwaitedBit ==
    /\ []PollsExitOnAwaitedBit
    /\ (pc = "init_poll") ~> (pc = "idle" /\ ret.op = "initialize")
    /\ (pc = "phy_poll") ~> (pc = "idle" /\ ret.op = "read_phy")
    /\ (pc = "tx_poll") ~> (pc = "idle" /\ ret.op = "transmit")

\* a transmit that returned after MaxPoll reads of ECON1 with TXRTS still set
C16_Witness_PolledWhileBusy ==
    /\ pc = "idle" /\ ret.op = "transmit" /\ ret.st = "ok"
    /\ Cardinality(Where(trace, IsReadEcon1)) = MaxPoll + 1

(***************************************************************************)
(* C17: when reset() or reset_via_spi() has returned, the cached           *)
(* current_bank is Bank0, the bank the device is in after a reset.         *)
(***************************************************************************)
C17_ResetClearsBankCache ==
    (pc = "idle" /\ ret.op \in {"reset", "reset_via_spi"} /\ ret.st = "ok") =>
        current_bank = Bank0

AfterInitOps == {"receive", "transmit", "read_phy", "write_phy"}

\* the commands the step issues
StepCommands ==
    IF pc = "idle" THEN trace' ELSE SubSeq(trace', Len(trace) + 1, Len(trace'))

\* a command the device takes as a write to one of the registers regs
WritesTo(e, regs) ==
    /\ IsRegCmd(e) /\ OpOf(e) \in {WCR, BFS, BFC}
    /\ \E r \in regs : ArgOf(e) = addr(r) /\ e.bank = bank(r)

Kept(lo) == Get16(dev', lo) = Get16(dev, lo)

LayoutKept ==
    /\ \A i \in DOMAIN StepCommands :
          ~WritesTo(StepCommands[i],
                    {ERXSTL, ERXSTH, ERXNDL, ERXNDH, ETXSTL, ETXSTH})
    /\ Kept(ERXSTL) /\ Kept(ERXNDL) /\ Kept(ETXSTL)

ReadPointerKept ==
    /\ \A i \in DOMAIN StepCommands :
          ~WritesTo(StepCommands[i], {ERXRDPTL, ERXRDPTH})
    /\ Kept(ERXRDPTL)

LayoutInitialized ==
    /\ RingInitialized
    /\ Get16(dev, ETXSTL) = TX_START

(***************************************************************************)
(* C18 as stated: with the layout initialize programs, no step of receive, *)
(* transmit, read_phy or write_phy writes ERXST, ERXND, ERXRDPT or ETXST,  *)
(* and the four keep their values.                                         *)
(***************************************************************************)
C18_NoLayoutRegisterRewritten ==
    [][(LayoutInitialized /\ ret'.op \in AfterInitOps) =>
          LayoutKept /\ ReadPointerKept]_vars

(***************************************************************************)
(* C18, amended: from any state, the one initialize leaves included, no    *)
(* step of receive, transmit, read_phy or write_phy writes ERXST, ERXND or *)
(* ETXST, which keep their values; ERXRDPT is written only by a receive    *)
(* that found a packet, and kept by every other step.                      *)
(***************************************************************************)
C18_OnlyReceiveMovesReadPointer ==
    [][ret'.op \in AfterInitOps =>
          /\ LayoutKept
          /\ (ret'.op = "receive" /\ info'.packet_count # 0) \/ ReadPointerKept]_vars

\* a receive after initialize that took a packet and moved ERXRDPT
C18_Witness_ReceiveAfterInit ==
    /\ Returned("receive") /\ TookPacket
    /\ LayoutInitialized
    /\ Get16(dev, ERXRDPTL) = info.new_rdpt /\ info.new_rdpt # 0

\* register.rs, lines 78-138: every named control register (MACON4 and MAIPGH,
\* which the driver never accesses, by their constructor)
ControlRegisters ==
    {EIE, EIR, ESTAT, ECON2, ECON1, ERDPTL, ERDPTH, EWRPTL, EWRPTH, ETXSTL,
     ETXSTH, ETXNDL, ETXNDH, ERXSTL, ERXSTH, ERXNDL, ERXNDH, ERXRDPTL,
     ERXRDPTH, ERXWRPTL, ERXWRPTH, ERXFCON, EPKTCNT, MACON1, MACON3,
     banked(3, Bank2, "Mac"), MABBIPG, MAIPGL, banked(7, Bank2, "Mac"),
     MAMXFLL, MAMXFLH, MICMD, MIREGADR, MIWRL, MIWRH, MIRDL, MIRDH, MAADR5,
     MAADR6, MAADR3, MAADR4, MAADR1, MAADR2, MISTAT, EREVID}

\* the 3-bit opcodes of the datasheet, by the name the driver gives them
OpBits == {<<RCR, 0>>, <<WCR, 2>>, <<BFS, 4>>, <<BFC, 5>>}

\* what the claim says of a first byte
FirstByte(bits, a) == bits * 32 + (a % 32)

RegisterFirstBytes ==
    {FirstByte(o[2], r.addr) : r \in ControlRegisters, o \in OpBits}

EmittedFirstBytesEncoded ==
    \A i \in DOMAIN trace :
        LET e == trace[i]
        IN \/ e.tx = <<255>>
           \/ e.tx[1] = FirstByte(1, 26) /\ Len(e.tx) = 1 /\ e.rx > 0
           \/ e.tx[1] = FirstByte(3, 26) /\ e.rx = 0
           \/ /\ Len(e.tx) = 2
              /\ e.tx[1] \in RegisterFirstBytes

(***************************************************************************)
(* C19: for every named control register r and op in RCR, WCR, BFS, BFC    *)
(* the command's first byte is (op << 5) | (r.addr & 0x1f); every mem_read *)
(* begins with 0x3A and every mem_write with 0x7A; the soft reset is the   *)
(* single byte 0xFF; and every command a trace holds is one of these.      *)
(***************************************************************************)
C19_FirstByteEncoding ==
    /\ \A r \in ControlRegisters, o \in OpBits :
          opcode(r, o[1]) = FirstByte(o[2], r.addr)
    /\ LET m == Machine(0, buf, <<>>)
       IN /\ TxOf(mem_read(m, 1).trace) = <<<<58>>>>
          /\ TxOf(mem_write(m, <<CONTROL_BYTE>>).trace) = <<<<122, CONTROL_BYTE>>>>
          /\ TxOf(reset_via_spi(m).trace) = <<<<255>>>>
    /\ EmittedFirstBytesEncoded

\* a transmit, whose commands use RCR, WCR, WBM, BFS and BFC
C19_Witness_AllOpcodes ==
    /\ Returned("transmit")
    /\ {trace[i].tx[1] \div 32 : i \in DOMAIN trace} = {0, 2, 3, 4, 5}

(***************************************************************************)
(* C20: the transfer of read_control clocks two bytes for an ETH register  *)
(* and three for a MAC or MII register, and read_control returns the last  *)
(* of them.                                                                *)
(***************************************************************************)
C20_ReadControlLength ==
    [][\A reg \in RcRegs :
          ReadControl(0, reg) =>
              LET e == trace'[Len(trace')]
                  n == IF shifts_dummy_byte(reg) THEN 3 ELSE 2
              IN e.rx = n /\ ret'.val = e.rsp[n]]_vars

\* every banked access of the trace tr was taken by the device in bank b
AllTakenInBank(tr, b) ==
    \A i \in DOMAIN tr : AccessesBanked(tr[i]) => tr[i].bank = b

(***************************************************************************)
(* C21: every RCR or WCR to a banked register is issued while the bank     *)
(* bits ECON1[1:0] of the device equal the register's bank, as they would  *)
(* be with a bank switch before every banked access: in read_control and   *)
(* write_control of a banked register, and in write_phy, whose three       *)
(* registers MIREGADR, MIWRL and MIWRH are in Bank2.                       *)
(***************************************************************************)
C21_BankedAccessInOwnBank ==
    [][/\ \A reg \in RcRegs :
             (ReadControl(0, reg) /\ bank(reg) # NoBank) =>
                 trace'[Len(trace')].bank = bank(reg)
       /\ \A a \in WcArgs :
             (WriteControl(0, a[1], a[2]) /\ bank(a[1]) # NoBank) =>
                 trace'[Len(trace')].bank = bank(a[1])
       /\ \A reg \in PhyRegs, data \in PhyData :
             WritePhy(0, reg, data) => AllTakenInBank(trace', Bank2)]_vars

\* a write of the low byte of ERXRDPT, taken by the device in bank 0
WritesErxrdptLow(e) == IsCmd(e, ERXRDPTL, WCR) /\ e.bank = bank(ERXRDPTL)

(***************************************************************************)
(* C22: every value initialize and receive program into ERXRDPT is odd     *)
(* (its low byte, written to ERXRDPTL, has bit 0 set).                     *)
(***************************************************************************)
C22_ErxrdptOdd ==
    ret.op \in {"initialize", "receive"} =>
        \A i \in Where(trace, WritesErxrdptLow) : trace[i].tx[2] % 2 = 1

\* a step of the driver (the device's own steps leave ops and trace alone)
DriverStep == ops' = ops + 1 \/ (pc # "idle" /\ trace' # trace)

StartsMiiOperation ==
    \E i \in DOMAIN StepCommands :
        WritesTo(StepCommands[i], {MIREGADR, MIWRL, MIWRH, MICMD})

(***************************************************************************)
(* C23: no step of initialize writes MIREGADR, MIWRL, MIWRH or MICMD while *)
(* the PHY write begun by an earlier step is still in progress on the      *)
(* device (MISTAT.BUSY set): the PHCON2 write starts only after the PHCON1 *)
(* write has completed.                                                    *)
(***************************************************************************)
C23_NoMiiOperationWhileBusy ==
    [][(DriverStep /\ ret'.op = "initialize" /\ StartsMiiOperation) =>
          dev.mii # "wr"]_vars

Rcr(reg) == <<opcode(reg, RCR), 0>>

\* the commands of a read_phy that returned, bank switches left out: their
\* order, the exit of the poll, and the value returned
ReadPhySequence ==
    LET t == SelectSeq(trace, NotBankSwitch)
        n == Len(t)
    IN /\ n >= 6
       /\ \E reg \in PhyRegs : t[1].tx = Wcr(MIREGADR, reg.addr)
       /\ t[2].tx = Wcr(MICMD, 1)
       /\ \A i \in 3 .. n - 3 : t[i].tx = Rcr(MISTAT)
       /\ \A i \in 3 .. n - 3 : MiiBusyClear(t[i]) <=> i = n - 3
       /\ t[n - 2].tx = Wcr(MICMD, 0)
       /\ t[n - 1].tx = Rcr(MIRDL)
       /\ t[n].tx = Rcr(MIRDH)
       /\ ret.val = t[n - 1].rsp[3] + 256 * t[n].rsp[3]

\* each access of the read_phy was taken by the device in the register's bank
ReadPhyBanks ==
    \A i \in DOMAIN trace :
        AccessesBanked(trace[i]) =>
            trace[i].bank = IF IsReadMistat(trace[i]) THEN bank(MISTAT)
                            ELSE bank(MICMD)

(***************************************************************************)
(* C24: a read_phy that returned Ok has written reg.addr to MIREGADR and 1 *)
(* to MICMD, read MISTAT until a read showed BUSY clear, then written 0 to *)
(* MICMD and read MIRDL and MIRDH, returning MIRDL | (MIRDH << 8); and the *)
(* device took each access in the register's bank (Bank3 for MISTAT,       *)
(* Bank2 for the others).                                                  *)
(***************************************************************************)
C24_ReadPhySequenceAndBanks ==
    Returned("read_phy") => ReadPhySequence /\ ReadPhyBanks

(***************************************************************************)
(* read_u16 and write_u16 (lines 384-399) on their own, over a MAC pair of *)
(* sixteen bits (MAMXFL, read with a dummy byte) and an ETH pointer pair   *)
(* of thirteen (ETXND), with values up to the width of the pair.           *)
(***************************************************************************)
U16Inputs ==
    {<<MAMXFLL, MAMXFLH, v>> : v \in {0, 255, 256, 4660, 65535}}
    \cup {<<ETXNDL, ETXNDH, v>> : v \in {0, 255, 256, 4660, 8191}}

WriteU16(f, lo, hi, val) ==
    /\ Start
    /\ \E m \in {write_u16(Machine(f, buf, <<>>), lo, hi, val)} :
          Commit(m) /\ Return(m, "write_u16")
    /\ NoReceive
    /\ UNCHANGED <<step, polls>>

ReadU16(f, lo, hi) ==
    /\ Start
    /\ \E m \in {read_u16(Machine(f, buf, <<>>), lo, hi)} :
          Commit(m) /\ Return(m, "read_u16")
    /\ NoReceive
    /\ UNCHANGED <<step, polls>>

NextU16 ==
    \/ \E f \in Faults, x \in U16Inputs :
          WriteU16(f, x[1], x[2], x[3]) /\ FirstFault
    \/ \E f \in Faults, x \in U16Inputs : ReadU16(f, x[1], x[2]) /\ FirstFault

SpecU16 == Init /\ [][NextU16]_vars

\* the fault point of the step: the transaction that failed, 0 if none did
FaultTaken == IF FailedAt(trace') = {} THEN 0 ELSE Len(trace')

\* the commands of a trace, bank switches left out, with the failed one if any
Issued(tr) == SelectSeq(tr, NotBankSwitch)

\* the byte a register read returned: after the dummy byte for MAC and MII
ReadByte(e, reg) == IF shifts_dummy_byte(reg) THEN e.rsp[3] ELSE e.rsp[2]

WriteU16Post(lo, hi, val) ==
    LET c == Issued(trace')
        both == <<Wcr(lo, val % 256), Wcr(hi, val \div 256)>>
    IN /\ TxOf(c) \in {SubSeq(both, 1, n) : n \in 0 .. 2}
       /\ ret'.st = "ok" =>
             /\ TxOf(c) = both
             /\ Get16(dev', lo) = val
       /\ (c # <<>> /\ ~c[1].ok) =>
             /\ Len(c) = 1
             /\ dev'.regs[RegKey(hi)] = dev.regs[RegKey(hi)]

ReadU16Post(lo, hi) ==
    LET c == Issued(trace')
    IN ret'.st = "ok" =>
          /\ TxOf(c) = <<Rcr(lo), Rcr(hi)>>
          /\ ret'.val = ReadByte(c[1], lo) + 256 * ReadByte(c[2], hi)
          /\ ret'.val = Get16(dev, lo)

(***************************************************************************)
(* C25: write_u16(lo, hi, v) writes v & 0xff to lo and then v >> 8 to hi,  *)
(* after which the pair holds v; if the write of the low byte fails, the   *)
(* high byte is not written.  read_u16(lo, hi) reads lo and then hi and    *)
(* returns lo | (hi << 8), the value the pair holds: v after write_u16.    *)
(***************************************************************************)
C25_U16LowByteFirst ==
    [][\A x \in U16Inputs :
          /\ (ret'.op = "write_u16" /\ WriteU16(FaultTaken, x[1], x[2], x[3])) =>
                 WriteU16Post(x[1], x[2], x[3])
          /\ (ret'.op = "read_u16" /\ ReadU16(FaultTaken, x[1], x[2])) =>
                 ReadU16Post(x[1], x[2])]_vars

\* read_u16 returned 0x1234 from the MAC pair that write_u16 had set
C25_Witness_RoundTrip ==
    /\ pc = "idle" /\ ret.op = "read_u16" /\ ret.st = "ok"
    /\ ret.val = 4660
    /\ TxOf(Issued(trace)) = <<Rcr(MAMXFLL), Rcr(MAMXFLH)>>

(***************************************************************************)
(* transmit with the longest frame the transmit region takes after         *)
(* initialize (control byte, dst, src and data fill TX_START .. 0x1FFF)    *)
(* and with one byte more.  transmit accepts any data: &[u8].              *)
(***************************************************************************)
LongTxData ==
    {[i \in 1 .. n |-> 0] :
        n \in {RAM_SIZE - TX_START - 13, RAM_SIZE - TX_START - 12}}

NextLongFrame ==
    \/ \E f \in NoFaults : Initialize(f)
    \/ InitPoll
    \/ InitStep
    \/ \E f \in NoFaults, data \in LongTxData, wrap \in BOOLEAN :
          Transmit(f, MacDst, MacSrc, data, wrap)
    \/ TransmitPoll
    \/ DevClkReady
    \/ \E abort \in BOOLEAN : DevTxDone(abort)

SpecLongFrame == Init /\ [][NextLongFrame]_vars

IsTxrtsSet(e) == e.tx = <<opcode(ECON1, BFS), TXRTS_MASK>>
IsWriteEtxndl(e) == IsCmd(e, ETXNDL, WCR)
IsWriteEtxndh(e) == IsCmd(e, ETXNDH, WCR)

\* the value the commands of the trace program into ETXND
EtxndProgrammed ==
    trace[CHOOSE i \in Where(trace, IsWriteEtxndl) : TRUE].tx[2]
    + 256 * trace[CHOOSE i \in Where(trace, IsWriteEtxndh) : TRUE].tx[2]

(***************************************************************************)
(* C26: when transmit sets TXRTS, the value it has programmed into ETXND   *)
(* is ETXST + frame length - 1 without wrap-around, and                    *)
(* ETXST <= ETXND <= 0x1FFF: the frame ends inside the on-chip memory.     *)
(***************************************************************************)
C26_EtxndInsideRam ==
    (ret.op = "transmit" /\ Where(trace, IsTxrtsSet) # {}) =>
        /\ EtxndProgrammed = Get16(dev, ETXSTL) + Len(WbmBytes(trace)) - 1
        /\ Get16(dev, ETXSTL) <= EtxndProgrammed
        /\ EtxndProgrammed <= RAM_SIZE - 1

====
